---------------------------- MODULE Spec2Model ----------------------------
(***************************************************************************)
(* A model of the rag-workshop services.                                   *)
(*                                                                         *)
(*   backend/app/main.py, rag_pipeline.py : the Ingestion/Answer Service   *)
(*   frontend/app.py                      : the session-aware Gateway      *)
(*                                                                         *)
(* Four specifications share the variables:                                *)
(*   Spec         the Ingestion/Answer Service as main.py starts it: one   *)
(*                uvicorn process, whose event loop runs an async handler  *)
(*                to its end before it takes the next request; /upload-pdf *)
(*                steps through upload_pdf and ingest_pdf, one action per  *)
(*                call to Pinecone, and /chat runs between uploads;        *)
(*   SpecWorkers  the upload pipeline of several worker processes that     *)
(*                share the Pinecone index and the tmp_uploads directory;  *)
(*   SpecGateway  one browser session of the Gateway: /upload, /chat,      *)
(*                /reset and /health, the upstream replies being any reply *)
(*                the Ingestion Service or the network can give;           *)
(*   SpecSnippet  the citation formatting of chat_with_doc applied to      *)
(*                chunk texts of every length around the 250 limit.        *)
(*                                                                         *)
(* Conventions.  A Python dict entry that may be missing, and a value that *)
(* may be None, is a set with at most one element: {} is "missing"/None,   *)
(* {v} is the value v.  A uuid4() is a fresh number.  The exception text   *)
(* str(e) is the set of the substrings the handlers look for that occur    *)
(* in it.                                                                  *)
(***************************************************************************)
EXTENDS Integers, Sequences, FiniteSets, TLC

(***************************************************************************)
(* Bounds of the model.                                                    *)
(***************************************************************************)
NumCalls == 2        \* worker processes of SpecWorkers
MaxUploads == 2      \* /upload-pdf requests that get as far as a temp file
MaxPages == 2        \* pages of an uploaded PDF
MaxTextLen == 252    \* longest chunk text formatted in SpecSnippet
MaxGwReqs == 4       \* requests of the Gateway session

(***************************************************************************)
(* Program constants.                                                      *)
(***************************************************************************)
SnippetLen == 250    \* main.py:146  doc.page_content[:250]
TopK == 5            \* rag_pipeline.py:164  "k": 5
NoneDocId == 0       \* rag_pipeline.py:108  doc_id: Optional[str] = None

VARIABLES
    \* ---- Ingestion/Answer Service and its collaborators
    indexState,     \* the Pinecone index: "absent", "creating" (exists, not ready), "ready"
    store,          \* the chunks held by the vector index
    tmpFiles,       \* the files that exist under tmp_uploads/
    nextFile,       \* the next uuid4 of upload_pdf (the temp file name)
    nextDoc,        \* the next uuid4 of ingest_pdf (the document id)
    docPages,       \* doc id -> len(pages) as logged by ingest_pdf
    req,            \* the /upload-pdf request of each worker slot
    lastChat,       \* the last /chat request of the service and its response
    \* ---- Gateway
    session,        \* the Flask session: [doc_id, filename], each {} when missing
    gwLog,          \* the requests the session has made, with their outcome
    gwResp,         \* the response to the last Gateway request
    \* ---- citation formatting
    snipDoc,        \* a retrieved document
    snipOut         \* {} or {source_info built from snipDoc}

backendVars == <<indexState, store, tmpFiles, nextFile, nextDoc, docPages, req, lastChat>>
gatewayVars == <<session, gwLog, gwResp>>
snippetVars == <<snipDoc, snipOut>>
vars == <<indexState, store, tmpFiles, nextFile, nextDoc, docPages, req, lastChat,
          session, gwLog, gwResp, snipDoc, snipOut>>

Calls == 1 .. NumCalls

\* the one process of Spec
MainWorker == CHOOSE c \in Calls : \A d \in Calls : c <= d

Min(a, b) == IF a < b THEN a ELSE b

(***************************************************************************)
(* Texts.  A text is a sequence of characters.                             *)
(***************************************************************************)
Alphabet == <<"a", "b", "c">>

\* the text of length n whose i-th character is Alphabet[((i + k) % 3) + 1]
MkText(n, k) == [i \in 1 .. n |-> Alphabet[((i + k) % 3) + 1]]

Ellipsis == <<".", ".", ".">>

\* Python's s[:n]
Prefix(s, n) == SubSeq(s, 1, Min(n, Len(s)))

\* str.strip(): leading and trailing blanks removed
RECURSIVE LStrip(_)
LStrip(s) == IF s # <<>> /\ Head(s) = " " THEN LStrip(Tail(s)) ELSE s

RECURSIVE RStrip(_)
RStrip(s) ==
    IF s # <<>> /\ s[Len(s)] = " " THEN RStrip(SubSeq(s, 1, Len(s) - 1)) ELSE s

Strip(s) == RStrip(LStrip(s))

\* a slip: a text of exactly 250 characters gets the marker too
SnippetMarksAtLimit(page_content) ==
    Prefix(page_content, SnippetLen)
        \o (IF Len(page_content) >= SnippetLen THEN Ellipsis ELSE <<>>)

\* main.py:146  doc.page_content[:250] + ("..." if len(doc.page_content) > 250 else "")
Snippet(page_content) ==
    Prefix(page_content, SnippetLen)
        \o (IF Len(page_content) > SnippetLen THEN Ellipsis ELSE <<>>)

\* main.py:144-148  the citation built from one retrieved document; a missing
\* metadata key ({}) is what the code renders as "N/A"
source_info(doc) ==
    [page_number |-> doc.page_number,
     snippet     |-> Snippet(doc.page_content),
     doc_id      |-> doc.doc_id]


(***************************************************************************)
(* Optional values: {} is a missing key / None, {v} is v.                  *)
(***************************************************************************)
\* dict.get(key, default)
MetaGet(entry, default) == IF entry = {} THEN default ELSE CHOOSE v \in entry : TRUE

(***************************************************************************)
(* rag_pipeline.py : ingest_pdf                                            *)
(***************************************************************************)
\* PyPDFLoader(file_path).load(): one document per page.  has_page says whether
\* the loader puts its own 0-based page index under metadata["page"].  Every
\* page text is shorter than the splitter's chunk_size.
loader_load(n_pages, has_page) ==
    [i \in 1 .. n_pages |->
        [page_content |-> MkText(i, 0),
         page         |-> IF has_page THEN {i - 1} ELSE {},
         doc_id       |-> {},
         page_number  |-> {}]]

\* rag_pipeline.py:118  document_id = doc_id or str(uuid.uuid4())
new_document_id(doc_id, uuid4) == IF doc_id = NoneDocId THEN uuid4 ELSE doc_id

\* a slip: the page is tagged with the doc_id argument, not with document_id
TagPageWithArgument(page, i, doc_id, document_id) ==
    [page EXCEPT !.doc_id = {doc_id},
                 !.page_number = {MetaGet(page.page, i)}]

\* rag_pipeline.py:127-128, the body of  for i, page in enumerate(pages, start=1)
TagPage(page, i, doc_id, document_id) ==
    [page EXCEPT !.doc_id = {document_id},
                 !.page_number = {MetaGet(page.page, i)}]

\* rag_pipeline.py:130  text_splitter.split_documents(pages): a page no longer
\* than chunk_size is one chunk, which carries a copy of the page's metadata
split_documents(pages) == {pages[i] : i \in DOMAIN pages}

\* rag_pipeline.py:135  chunk.metadata.setdefault("doc_id", document_id)
setdefault_doc_id(chunk, document_id) ==
    IF chunk.doc_id = {} THEN [chunk EXCEPT !.doc_id = {document_id}] ELSE chunk

\* rag_pipeline.py:126-135  the chunks ingest_pdf hands to the vector store
ingest_chunks(pages, doc_id, document_id) ==
    LET tagged == [i \in DOMAIN pages |-> TagPage(pages[i], i, doc_id, document_id)]
    IN  {setdefault_doc_id(chunk, document_id) : chunk \in split_documents(tagged)}

(***************************************************************************)
(* main.py : upload_pdf                                                    *)
(***************************************************************************)
ContentTypes == {"application/pdf", "text/plain"}
FileSizes == {0, 1}                 \* os.path.getsize: empty or not
UploadMarkers == {"PDF", "corrupt"}  \* the substrings upload_pdf looks for in str(e)

IdleReq ==
    [pc |-> "idle", content_type |-> "", size |-> 0, file_path |-> {},
     document_id |-> {}, chunks |-> {}, written |-> {}, called_ingest |-> FALSE,
     index_at_write |-> "",
     status |-> 0, detail |-> "", doc_id |-> {}]

\* main.py:110-115  except Exception as e
upload_error_message(str_e) ==
    IF "PDF" \in str_e /\ "corrupt" \in str_e
    THEN "Le fichier PDF semble corrompu ou invalide"
    ELSE "Erreur lors du traitement du PDF"

\* the request of slot c leaves the try block by an exception whose text is str_e:
\* the handler turns it into a 500 and the finally clause is still to run
Raised(r, str_e) ==
    [r EXCEPT !.pc = "finally", !.status = 500, !.detail = upload_error_message(str_e)]

\* str() of the HTTPException(400, "Le fichier PDF est vide") raised at main.py:99
EmptyFileException == {"PDF"}

\* main.py:73-95  content-type check, temp file name, copy of the body to disk
upload_pdf_save(c) ==
    /\ req[c].pc \in {"idle", "done"}
    /\ \E ct \in ContentTypes, sz \in FileSizes :
         IF ct # "application/pdf"
         THEN /\ req' = [req EXCEPT ![c] =
                         [IdleReq EXCEPT !.pc = "done", !.content_type = ct, !.size = sz,
                                         !.status = 400,
                                         !.detail = "Le fichier doit etre un PDF (application/pdf)"]]
              /\ UNCHANGED <<tmpFiles, nextFile>>
         ELSE /\ nextFile <= MaxUploads
              /\ nextFile' = nextFile + 1
              /\ tmpFiles' = tmpFiles \cup {nextFile}
              /\ req' = [req EXCEPT ![c] =
                         [IdleReq EXCEPT !.pc = "saved", !.content_type = ct,
                                         !.size = sz, !.file_path = {nextFile}]]
    /\ UNCHANGED <<indexState, store, nextDoc, docPages, lastChat>>
    /\ UNCHANGED <<gatewayVars, snippetVars>>

\* main.py:98-102  the empty-file check; a non-empty file enters ingest_pdf
upload_pdf_check_size(c) ==
    /\ req[c].pc = "saved"
    /\ req' = [req EXCEPT ![c] =
                 IF req[c].size = 0
                 THEN Raised(req[c], EmptyFileException)
                 ELSE [req[c] EXCEPT !.pc = "ensure", !.called_ingest = TRUE]]
    /\ UNCHANGED <<indexState, store, tmpFiles, nextFile, nextDoc, docPages, lastChat>>
    /\ UNCHANGED <<gatewayVars, snippetVars>>

(***************************************************************************)
(* rag_pipeline.py : _ensure_pinecone_index, one action per Pinecone call  *)
(***************************************************************************)
\* rag_pipeline.py:53-56  pc.list_indexes() and the early return
ensure_pinecone_index_list(c) ==
    /\ req[c].pc = "ensure"
    /\ \/ req' = [req EXCEPT ![c].pc =
                     IF indexState # "absent" THEN "load" ELSE "create"]
       \/ \E str_e \in SUBSET UploadMarkers : req' = [req EXCEPT ![c] = Raised(req[c], str_e)]
    /\ UNCHANGED <<indexState, store, tmpFiles, nextFile, nextDoc, docPages, lastChat>>
    /\ UNCHANGED <<gatewayVars, snippetVars>>

\* rag_pipeline.py:59-64  pc.create_index(...); Pinecone refuses a name that exists
ensure_pinecone_index_create(c) ==
    /\ req[c].pc = "create"
    /\ \/ /\ indexState = "absent"
          /\ indexState' = "creating"
          /\ req' = [req EXCEPT ![c].pc = "poll"]
       \/ /\ \E str_e \in SUBSET UploadMarkers : req' = [req EXCEPT ![c] = Raised(req[c], str_e)]
          /\ UNCHANGED indexState
    /\ UNCHANGED <<store, tmpFiles, nextFile, nextDoc, docPages, lastChat>>
    /\ UNCHANGED <<gatewayVars, snippetVars>>

\* rag_pipeline.py:68-72  the loop leaves when describe_index reports ready;
\* while it does not, the call sleeps and asks again (no change of state)
ensure_pinecone_index_poll(c) ==
    /\ req[c].pc = "poll"
    /\ \/ /\ indexState = "ready"
          /\ req' = [req EXCEPT ![c].pc = "load"]
       \/ \E str_e \in SUBSET UploadMarkers : req' = [req EXCEPT ![c] = Raised(req[c], str_e)]
    /\ UNCHANGED <<indexState, store, tmpFiles, nextFile, nextDoc, docPages, lastChat>>
    /\ UNCHANGED <<gatewayVars, snippetVars>>

\* the Pinecone service finishes building the index (what describe_index polls for)
index_becomes_ready ==
    /\ indexState = "creating"
    /\ indexState' = "ready"
    /\ UNCHANGED <<store, tmpFiles, nextFile, nextDoc, docPages, req, lastChat>>
    /\ UNCHANGED <<gatewayVars, snippetVars>>

\* rag_pipeline.py:118-147 and main.py:104-108  document id, PyPDFLoader,
\* tagging, splitting, and PineconeVectorStore.from_documents, which embeds the
\* chunks and upserts them in one batch (a document of a few chunks fits one
\* batch, so a failing call stores nothing).  Pinecone is asked to store the
\* chunks whatever the index reports; index_at_write records what it reported.
ingest_pdf(c) ==
    /\ req[c].pc = "load"
    /\ nextDoc' = nextDoc + 1
    /\ \/ \E n_pages \in 1 .. MaxPages, has_page \in BOOLEAN :
            LET document_id == new_document_id(NoneDocId, nextDoc)
                pages == loader_load(n_pages, has_page)
                chunks == ingest_chunks(pages, NoneDocId, document_id)
            IN  /\ docPages' = docPages \cup {<<document_id, Len(pages)>>}
                /\ \/ /\ store' = store \cup chunks
                      /\ req' = [req EXCEPT ![c].pc = "finally",
                                            ![c].document_id = {document_id},
                                            ![c].chunks = chunks,
                                            ![c].written = chunks,
                                            ![c].index_at_write = indexState,
                                            ![c].status = 200,
                                            ![c].doc_id = {document_id},
                                            ![c].detail = "PDF traite et ingere avec succes"]
                   \/ /\ \E str_e \in SUBSET UploadMarkers :
                            req' = [req EXCEPT ![c] =
                                      [Raised(req[c], str_e) EXCEPT
                                          !.document_id = {document_id},
                                          !.chunks = chunks,
                                          !.index_at_write = indexState]]
                      /\ UNCHANGED store
       \/ /\ \E str_e \in SUBSET UploadMarkers :
               req' = [req EXCEPT ![c] =
                         [Raised(req[c], str_e) EXCEPT
                             !.document_id = {new_document_id(NoneDocId, nextDoc)}]]
          /\ UNCHANGED <<store, docPages>>
    /\ UNCHANGED <<indexState, tmpFiles, nextFile, lastChat>>
    /\ UNCHANGED <<gatewayVars, snippetVars>>

\* a slip: the temp file is removed on the success path only
upload_pdf_cleanup_on_success(c) ==
    /\ req[c].pc = "finally"
    /\ tmpFiles' = IF req[c].status = 200 THEN tmpFiles \ req[c].file_path ELSE tmpFiles
    /\ req' = [req EXCEPT ![c].pc = "done"]
    /\ UNCHANGED <<indexState, store, nextFile, nextDoc, docPages, lastChat>>
    /\ UNCHANGED <<gatewayVars, snippetVars>>

\* main.py:117-120  finally: remove the temp file; the response goes out
upload_pdf_finally(c) ==
    /\ req[c].pc = "finally"
    /\ tmpFiles' = tmpFiles \ req[c].file_path
    /\ req' = [req EXCEPT ![c].pc = "done"]
    /\ UNCHANGED <<indexState, store, nextFile, nextDoc, docPages, lastChat>>
    /\ UNCHANGED <<gatewayVars, snippetVars>>

(***************************************************************************)
(* rag_pipeline.py : get_retriever_for_doc, build_qa_chain                 *)
(***************************************************************************)
\* a slip: the retriever is built without the metadata filter
UnfilteredMatches(doc_id) == store

\* rag_pipeline.py:165  "filter": {"doc_id": {"$eq": doc_id}}
FilterMatches(doc_id) == {chunk \in store : chunk.doc_id = {doc_id}}

\* rag_pipeline.py:162-167  the results one query of the retriever can give: the
\* k chunks nearest to the question among those the filter lets through (which
\* k they are depends on the question's embedding)
get_retriever_for_doc(doc_id) ==
    LET matches == FilterMatches(doc_id)
    IN  {docs \in SUBSET matches : Cardinality(docs) = Min(TopK, Cardinality(matches))}

(***************************************************************************)
(* main.py : chat_with_doc                                                 *)
(***************************************************************************)
ChatDocIds == 0 .. MaxUploads + 1   \* 0 is the blank doc_id
Questions == {<<>>, <<" ">>, <<"q">>}
ChatMarkers == {"index", "not found", "timeout"}  \* what chat_with_doc looks for in str(e)

NoChat ==
    [doc_id |-> 0, question |-> <<>>, status |-> 0, detail |-> "", answer |-> "",
     matched |-> 0, context |-> {}, source_documents |-> {}, sources |-> {}]

\* main.py:153-162  except Exception as e
chat_error_detail(str_e) ==
    IF "index" \in str_e \/ "not found" \in str_e THEN "Document avec doc_id non trouve"
    ELSE IF "timeout" \in str_e THEN "Delai d'attente depasse"
    ELSE "Erreur lors de la generation de la reponse"

\* main.py:122-162  one /chat request.  The chain queries the retriever twice,
\* once for the prompt's context and once for source_documents, and calls the
\* embedding and completion APIs, any of which may raise.  The event loop takes
\* the request when it is not inside upload_pdf.  matched records how many
\* chunks of the index carry the requested doc_id when the request is served.
chat_with_doc ==
    /\ req[MainWorker].pc \in {"idle", "done"}
    /\ \E doc_id \in ChatDocIds, question \in Questions :
         LET request == [NoChat EXCEPT !.doc_id = doc_id, !.question = question]
         IN  IF doc_id = 0
             THEN lastChat' = [request EXCEPT !.status = 400, !.detail = "doc_id est requis"]
             ELSE IF Strip(question) = <<>>
             THEN lastChat' = [request EXCEPT !.status = 400, !.detail = "question est requise"]
             ELSE \/ /\ indexState # "absent"
                     /\ \E context \in get_retriever_for_doc(doc_id),
                           source_documents \in get_retriever_for_doc(doc_id) :
                          lastChat' = [request EXCEPT
                              !.status = 200,
                              !.answer = "answer",
                              !.matched = Cardinality(FilterMatches(doc_id)),
                              !.context = context,
                              !.source_documents = source_documents,
                              !.sources = {source_info(doc) : doc \in source_documents}]
                  \/ \E str_e \in SUBSET ChatMarkers :
                          lastChat' = [request EXCEPT
                              !.status = 500,
                              !.matched = Cardinality(FilterMatches(doc_id)),
                              !.detail = chat_error_detail(str_e)]
    /\ UNCHANGED <<indexState, store, tmpFiles, nextFile, nextDoc, docPages, req>>
    /\ UNCHANGED <<gatewayVars, snippetVars>>

(***************************************************************************)
(* The state after start-up, and the Ingestion/Answer Service of one       *)
(* uvicorn process                                                         *)
(***************************************************************************)
InitGateway ==
    /\ session = [doc_id |-> {}, filename |-> {}]
    /\ gwLog = <<>>
    /\ gwResp = [op |-> "none", status |-> 0, error |-> "", forwarded |-> FALSE,
                 frontend |-> "", backend |-> ""]

InitSnippet ==
    /\ snipDoc = [page_content |-> <<>>, page |-> {}, doc_id |-> {}, page_number |-> {}]
    /\ snipOut = {}

InitBackend ==
    /\ indexState = "absent"
    /\ store = {}
    /\ tmpFiles = {}
    /\ nextFile = 1
    /\ nextDoc = 1
    /\ docPages = {}
    /\ req = [c \in Calls |-> IdleReq]
    /\ lastChat = NoChat

Init == InitBackend /\ InitGateway /\ InitSnippet

Next ==
    \/ upload_pdf_save(MainWorker)
    \/ upload_pdf_check_size(MainWorker)
    \/ ensure_pinecone_index_list(MainWorker)
    \/ ensure_pinecone_index_create(MainWorker)
    \/ ensure_pinecone_index_poll(MainWorker)
    \/ index_becomes_ready
    \/ ingest_pdf(MainWorker)
    \/ upload_pdf_finally(MainWorker)
    \/ chat_with_doc

Spec == Init /\ [][Next]_vars

(***************************************************************************)
(* Several worker processes running the upload pipeline                    *)
(***************************************************************************)
NextWorkers ==
    \/ \E c \in Calls : upload_pdf_save(c)
    \/ \E c \in Calls : upload_pdf_check_size(c)
    \/ \E c \in Calls : ensure_pinecone_index_list(c)
    \/ \E c \in Calls : ensure_pinecone_index_create(c)
    \/ \E c \in Calls : ensure_pinecone_index_poll(c)
    \/ index_becomes_ready
    \/ \E c \in Calls : ingest_pdf(c)
    \/ \E c \in Calls : upload_pdf_finally(c)

SpecWorkers == Init /\ [][NextWorkers]_vars

(***************************************************************************)
(* frontend/app.py : the Gateway, one browser session                      *)
(***************************************************************************)
\* str.lower() on the characters the file names use
LowerChar(ch) ==
    CASE ch = "A" -> "a"
      [] ch = "P" -> "p"
      [] ch = "D" -> "d"
      [] ch = "F" -> "f"
      [] OTHER -> ch

Lower(s) == [i \in 1 .. Len(s) |-> LowerChar(s[i])]

\* str.endswith(suffix)
EndsWith(s, suffix) ==
    /\ Len(s) >= Len(suffix)
    /\ SubSeq(s, Len(s) - Len(suffix) + 1, Len(s)) = suffix

DotPdf == <<".", "p", "d", "f">>

\* the file names a browser sends; <<>> is the empty name of "no file chosen"
Filenames ==
    {<<>>,
     <<"a", ".", "p", "d", "f">>,
     <<"A", ".", "P", "D", "F">>,
     <<"a", ".", "t", "x", "t">>,
     <<"p", "d", "f">>}

GwQuestions == {<<>>, <<" ">>, <<" ", "q", " ">>, <<"q">>}

\* the doc ids the Ingestion Service hands out
GwDocIds == 1 .. MaxUploads

\* what requests.post / requests.get can come back with
UploadReplies == {"200", "400", "500", "ConnectionError", "Exception"}
ChatReplies == {"200", "500", "Timeout", "ConnectionError", "Exception"}
HealthReplies == {"200", "500", "Timeout", "ConnectionError"}

NoGwResp ==
    [op |-> "none", status |-> 0, error |-> "", forwarded |-> FALSE,
     frontend |-> "", backend |-> ""]

GwError(op, status, error, forwarded) ==
    [NoGwResp EXCEPT !.op = op, !.status = status, !.error = error,
                     !.forwarded = forwarded]

\* app.py:20-59  /upload
gateway_upload_pdf ==
    /\ Len(gwLog) < MaxGwReqs
    /\ \E has_file \in BOOLEAN, filename \in Filenames,
          reply \in UploadReplies, doc_id \in GwDocIds :
         LET rejected(error) ==
                 /\ gwResp' = GwError("upload", 400, error, FALSE)
                 /\ gwLog' = Append(gwLog, [op |-> "upload", ok |-> FALSE])
                 /\ UNCHANGED session
             failed(error) ==
                 /\ gwResp' = GwError("upload", 500, error, TRUE)
                 /\ gwLog' = Append(gwLog, [op |-> "upload", ok |-> FALSE])
                 /\ UNCHANGED session
         IN  IF ~has_file \/ filename = <<>>
             THEN rejected("Aucun fichier selectionne")
             ELSE IF ~EndsWith(Lower(filename), DotPdf)
             THEN rejected("Le fichier doit etre un PDF")
             ELSE CASE reply = "200" ->
                         /\ session' = [doc_id |-> {doc_id}, filename |-> {filename}]
                         /\ gwResp' = [NoGwResp EXCEPT !.op = "upload", !.status = 200,
                                                       !.forwarded = TRUE]
                         /\ gwLog' = Append(gwLog, [op |-> "upload", ok |-> TRUE])
                    [] reply \in {"400", "500"} -> failed("detail")
                    [] reply = "ConnectionError" ->
                         failed("Impossible de se connecter au serveur backend")
                    [] OTHER -> failed("Erreur")
    /\ UNCHANGED <<backendVars, snippetVars>>

\* app.py:61-102  /chat
gateway_chat ==
    /\ Len(gwLog) < MaxGwReqs
    /\ gwLog' = Append(gwLog, [op |-> "chat", ok |-> FALSE])
    /\ \E question \in GwQuestions, reply \in ChatReplies :
         IF session.doc_id = {}
         THEN gwResp' = GwError("chat", 400, "Veuillez d'abord uploader un PDF", FALSE)
         ELSE IF Strip(question) = <<>>
         THEN gwResp' = GwError("chat", 400, "La question ne peut pas etre vide", FALSE)
         ELSE CASE reply = "200" ->
                     gwResp' = [NoGwResp EXCEPT !.op = "chat", !.status = 200,
                                                !.forwarded = TRUE]
                [] reply = "500" -> gwResp' = GwError("chat", 500, "detail", TRUE)
                [] reply = "Timeout" ->
                     gwResp' = GwError("chat", 408, "La requete a pris trop de temps", TRUE)
                [] reply = "ConnectionError" ->
                     gwResp' = GwError("chat", 500,
                                       "Impossible de se connecter au serveur backend", TRUE)
                [] OTHER -> gwResp' = GwError("chat", 500, "Erreur", TRUE)
    /\ UNCHANGED session
    /\ UNCHANGED <<backendVars, snippetVars>>

\* a slip: only the file name is dropped from the session
reset_session_keeps_doc_id ==
    /\ Len(gwLog) < MaxGwReqs
    /\ session' = [session EXCEPT !.filename = {}]
    /\ gwResp' = [NoGwResp EXCEPT !.op = "reset", !.status = 200]
    /\ gwLog' = Append(gwLog, [op |-> "reset", ok |-> TRUE])
    /\ UNCHANGED <<backendVars, snippetVars>>

\* app.py:104-108  /reset: session.clear()
reset_session ==
    /\ Len(gwLog) < MaxGwReqs
    /\ session' = [doc_id |-> {}, filename |-> {}]
    /\ gwResp' = [NoGwResp EXCEPT !.op = "reset", !.status = 200]
    /\ gwLog' = Append(gwLog, [op |-> "reset", ok |-> TRUE])
    /\ UNCHANGED <<backendVars, snippetVars>>

\* app.py:110-130  /health
gateway_health_check ==
    /\ Len(gwLog) < MaxGwReqs
    /\ gwLog' = Append(gwLog, [op |-> "health", ok |-> TRUE])
    /\ \E reply \in HealthReplies :
         IF reply \in {"Timeout", "ConnectionError"}
         THEN gwResp' = [NoGwResp EXCEPT !.op = "health", !.status = 503,
                                         !.forwarded = TRUE,
                                         !.frontend = "healthy",
                                         !.backend = "unreachable"]
         ELSE LET backend_status == (reply = "200")
              IN  gwResp' = [NoGwResp EXCEPT
                                !.op = "health", !.status = 200, !.forwarded = TRUE,
                                !.frontend = "healthy",
                                !.backend = IF backend_status THEN "healthy"
                                            ELSE "unreachable"]
    /\ UNCHANGED session
    /\ UNCHANGED <<backendVars, snippetVars>>

NextGateway ==
    \/ gateway_upload_pdf
    \/ gateway_chat
    \/ reset_session
    \/ gateway_health_check

SpecGateway == Init /\ [][NextGateway]_vars

(***************************************************************************)
(* main.py:141-149 : the citation of one retrieved document                *)
(***************************************************************************)
SnippetDocs ==
    {[page_content |-> MkText(n, k), page |-> {0}, doc_id |-> {1}, page_number |-> {1}] :
        n \in 0 .. MaxTextLen, k \in 0 .. 2}

\* main.py:143-149  one turn of  for doc in result.get("source_documents", [])
format_source ==
    /\ snipOut = {}
    /\ snipOut' = {source_info(snipDoc)}
    /\ UNCHANGED snipDoc
    /\ UNCHANGED <<backendVars, gatewayVars>>

\* the loop moves on to the next retrieved document
next_source_document ==
    /\ snipOut # {}
    /\ snipDoc' \in SnippetDocs
    /\ snipOut' = {}
    /\ UNCHANGED <<backendVars, gatewayVars>>

NextSnippet ==
    \/ format_source
    \/ next_source_document

SpecSnippet == Init /\ [][NextSnippet]_vars

(***************************************************************************)
(* Properties of the Ingestion/Answer Service (Spec)                       *)
(***************************************************************************)
Completed(c) == req[c].pc = "done"

\* C1  Isolation: every chunk a successful /chat request retrieved, for the
\* prompt's context and for the sources it returns, carries the requested
\* doc_id, and so does every citation of the response.
C1_Isolation ==
    lastChat.status = 200 =>
        /\ \A doc \in lastChat.context \cup lastChat.source_documents :
              doc.doc_id = {lastChat.doc_id}
        /\ \A source \in lastChat.sources : source.doc_id = {lastChat.doc_id}

\* a /chat request got chunks back while the index also held the chunks of a
\* document ingested earlier
C1_Witness ==
    /\ lastChat.status = 200
    /\ lastChat.source_documents # {}
    /\ lastChat.context # {}
    /\ \E chunk \in store : \E d \in chunk.doc_id : d < lastChat.doc_id

\* C2  An upload that is not application/pdf, or whose body is empty, is
\* answered 400 and never reaches ingest_pdf nor writes to the vector store.
C2_InvalidUploadIs400 ==
    \A c \in Calls :
        (Completed(c) /\ (req[c].content_type # "application/pdf" \/ req[c].size = 0)) =>
            /\ req[c].status = 400
            /\ ~req[c].called_ingest
            /\ req[c].written = {}

\* C3  A /chat request with a non-blank doc_id and question whose doc_id no
\* chunk of the index carries is never answered 200: it is answered 500, with
\* the document-not-found message (or, when the embedding or completion API
\* failed as well, with the message of that failure).
C3_UnknownDocIsNotFound ==
    (lastChat.status \in {200, 500} /\ lastChat.matched = 0) =>
        /\ lastChat.status = 500
        /\ lastChat.detail \in {"Document avec doc_id non trouve",
                                "Delai d'attente depasse",
                                "Erreur lors de la generation de la reponse"}

\* C5  The chunks a successful ingest stored all carry one doc_id, the one the
\* /upload-pdf response reports.
C5_OneDocIdPerIngest ==
    \A c \in Calls :
        req[c].status = 200 =>
            /\ req[c].doc_id # {}
            /\ req[c].doc_id = req[c].document_id
            /\ req[c].written = req[c].chunks
            /\ req[c].written \subseteq store
            /\ \A chunk \in req[c].written : chunk.doc_id = req[c].doc_id

\* a completed upload stored the chunks of a document of two pages or more
C5_Witness ==
    \E c \in Calls :
        /\ Completed(c)
        /\ req[c].status = 200
        /\ Cardinality(req[c].written) >= 2

\* C6  The temp file of an /upload-pdf request is gone once the request has
\* completed, however it ended, and when no request is in progress no temp
\* file is left.
C6_TempFileRemoved ==
    /\ \A c \in Calls : Completed(c) => req[c].file_path \cap tmpFiles = {}
    /\ (\A c \in Calls : req[c].pc \in {"idle", "done"}) => tmpFiles = {}

\* a request that had written its temp file completed with an error
C6_Witness ==
    \E c \in Calls :
        /\ Completed(c)
        /\ req[c].file_path # {}
        /\ req[c].status = 500
        /\ req[c].called_ingest

\* C9  Every citation of a successful /chat response names a page between 1
\* and the number of pages of the document it cites.
C9_PageNumberInRange ==
    lastChat.status = 200 =>
        \A source \in lastChat.sources :
            \E d \in docPages :
                /\ source.doc_id = {d[1]}
                /\ source.page_number # {}
                /\ source.page_number \subseteq 1 .. d[2]

(***************************************************************************)
(* Property of the upload pipeline of several workers (SpecWorkers)        *)
(***************************************************************************)
\* C10  No ingest call asks the vector store to write its chunks before the
\* index exists and has reported ready.
C10_WriteOnlyWhenReady ==
    \A c \in Calls : req[c].index_at_write \in {"", "ready"}

(***************************************************************************)
(* Properties of the Gateway (SpecGateway)                                 *)
(***************************************************************************)
\* some upload of the log succeeded and no reset follows it
ActiveDocument(log) ==
    \E i \in 1 .. Len(log) :
        /\ log[i].op = "upload"
        /\ log[i].ok
        /\ \A j \in (i + 1) .. Len(log) : log[j].op # "reset"

\* the requests before the one gwResp answers
Earlier == SubSeq(gwLog, 1, Len(gwLog) - 1)

\* C4  /chat calls the Ingestion Service only when an upload of the session
\* succeeded and no /reset followed it; otherwise it answers with the
\* no-active-document error and calls nothing.
C4_ChatNeedsActiveDocument ==
    gwResp.op = "chat" =>
        /\ gwResp.forwarded => ActiveDocument(Earlier)
        /\ ~ActiveDocument(Earlier) =>
              /\ gwResp.status = 400
              /\ gwResp.error = "Veuillez d'abord uploader un PDF"
              /\ ~gwResp.forwarded

\* /chat was refused after a successful upload and a /reset
C4_Witness ==
    /\ gwResp.op = "chat"
    /\ ~gwResp.forwarded
    /\ gwResp.error = "Veuillez d'abord uploader un PDF"
    /\ Len(gwLog) >= 3
    /\ \E i \in 1 .. Len(gwLog) - 2 : gwLog[i].op = "upload" /\ gwLog[i].ok
    /\ gwLog[Len(gwLog) - 1].op = "reset"

\* C7  /health reports the frontend healthy, and answers 503 whenever it
\* reports the backend unreachable.
C7_UnreachableIs503 ==
    gwResp.op = "health" =>
        /\ gwResp.frontend = "healthy"
        /\ gwResp.backend = "unreachable" => gwResp.status = 503

(***************************************************************************)
(* Property of the citation formatting (SpecSnippet)                       *)
(***************************************************************************)
\* C8  The snippet of a text longer than 250 characters is its first 250
\* characters followed by "..."; the snippet of a shorter text, one of exactly
\* 250 characters and the empty text included, is the text itself.
C8_SnippetTruncation ==
    \A source \in snipOut :
        LET text == snipDoc.page_content
        IN  /\ Len(text) > 250 =>
                  /\ Len(source.snippet) = 253
                  /\ SubSeq(source.snippet, 1, 250) = SubSeq(text, 1, 250)
                  /\ SubSeq(source.snippet, 251, 253) = <<".", ".", ".">>
            /\ Len(text) <= 250 => source.snippet = text

\* a text of more than 250 characters was formatted and its snippet is shorter
\* than the text plus the marker
C8_Witness ==
    \E source \in snipOut :
        /\ Len(snipDoc.page_content) > 251
        /\ Len(source.snippet) < Len(snipDoc.page_content) + 3

=============================================================================
